---- MODULE Spec2Model ----
(***************************************************************************)
(* The script console of src/editor/plugins.cpp (ConsolePlugin): the text  *)
(* buffer, the candidate list and the recursive candidate walker           *)
(* autocompleteSubstep over the object graph of the script runtime.        *)
(*                                                                         *)
(* Characters are their byte values, strings are sequences of bytes, so    *)
(* that byte-wise order is the order of the integers.                      *)
(***************************************************************************)
EXTENDS Integers, Sequences, FiniteSets, TLC

VARIABLES
    heap,               \* the runtime's objects: object id -> its properties, in enumeration order
    Buf,                \* ImGuiTextEditCallbackData::Buf, the text of the console input
    CursorPos,          \* ImGuiTextEditCallbackData::CursorPos
    autocomplete,       \* ConsolePlugin::autocomplete
    open_autocomplete,  \* ConsolePlugin::open_autocomplete
    callback,           \* how the last call of autocompleteCallback ended
    getter_calls,       \* property getters run by the last completion request
    vstack,             \* the runtime's value stack
    frames,             \* the active calls of autocompleteSubstep, innermost last
    substep_out,        \* the candidates pushed so far by the stepwise walker
    insert_value,       \* ConsolePlugin::insert_value, a pointer into the candidate list
    popup_open,         \* the "autocomplete" popup is open (ImGui's popup stack)
    autocomplete_selected, \* ConsolePlugin::autocomplete_selected
    gui_pc,             \* where onWindowGUI is: before the text input or before the popup
    scene,              \* JSScriptScene: component -> its scripts, in order
    entities,           \* the entities of the universe
    components,         \* the entities that have a script component
    selected,           \* the editor's selected entity, 0 for none
    undo_stack,         \* the editor's command stack
    undo_index,         \* the editor's position in the command stack
    menu_level          \* ImGui menus begun and not ended

popupVars == <<insert_value, popup_open, autocomplete_selected, gui_pc>>

editorVars == <<scene, entities, components, selected, undo_stack, undo_index, menu_level>>

consoleVars == <<heap, Buf, CursorPos, autocomplete, open_autocomplete, callback,
                 getter_calls, vstack, frames, substep_out, popupVars>>

vars == <<consoleVars, editorVars>>

----------------------------------------------------------------------------
(* Bounds and the alphabet of the model *)

MaxLen == 3

Dot == 46

Letters == {97, 98}

QueryChars == Letters \cup {Dot}

BufChars == QueryChars \cup {32}

GlobalObject == 0

Objects == {0, 1}

PropertyNames == {<<97>>, <<97, 98>>}

TmpSize == 128

----------------------------------------------------------------------------
(* Values of the script runtime.  One record shape for every value so that *)
(* values compare: an object reference, a non-object (number, string,      *)
(* null, undefined), an enumerator created by duk_enum, a key pushed by    *)
(* duk_next.                                                               *)

ObjectValue(o) == [kind |-> "object", ref |-> o, pos |-> 0, str |-> <<>>]

ScalarValue == [kind |-> "scalar", ref |-> 0, pos |-> 0, str |-> <<>>]

EnumValue(o, p) == [kind |-> "enum", ref |-> o, pos |-> p, str |-> <<>>]

KeyValue(s) == [kind |-> "key", ref |-> 0, pos |-> 0, str |-> s]

(* A property: its name, and either a data property holding a value or an  *)
(* accessor whose getter returns the value.                                *)
Property(n, acc, v) == [name |-> n, accessor |-> acc, value |-> v]

PropertyValues == {ScalarValue} \cup {ObjectValue(o) : o \in Objects}

PropertyKinds ==
    {[accessor |-> FALSE, value |-> v] : v \in PropertyValues}
        \cup {[accessor |-> TRUE, value |-> ObjectValue(1)]}

(* Every ordering of every subset of the property names: an object's keys  *)
(* are pairwise distinct and are enumerated in insertion order.            *)
RECURSIVE NameLists(_)
NameLists(S) ==
    {<<>>} \cup UNION {{<<n>> \o l : l \in NameLists(S \ {n})} : n \in S}

PropertyLists ==
    UNION {{[i \in 1..Len(l) |-> Property(l[i], k[i].accessor, k[i].value)]
              : k \in [1..Len(l) -> PropertyKinds]} : l \in NameLists(PropertyNames)}

Heaps == [Objects -> PropertyLists]

RECURSIVE Strings(_, _)
Strings(chars, n) ==
    IF n = 0 THEN {<<>>}
    ELSE LET shorter == Strings(chars, n - 1)
         IN  shorter \cup {Append(s, c) : s \in {t \in shorter : Len(t) = n - 1}, c \in chars}

Queries == Strings(QueryChars, MaxLen)

----------------------------------------------------------------------------
(* C strings *)

(* Mutant of startsWith: the arguments taken the other way round. *)
startsWith_swapped(str, prefix) ==
    Len(str) <= Len(prefix) /\ SubSeq(prefix, 1, Len(str)) = str

(* startsWith(str, prefix) of the engine's string library, as called in    *)
(* autocompleteSubstep: walks both strings while they agree and reports    *)
(* whether the prefix was used up.                                         *)
RECURSIVE startsWith(_, _)
startsWith(str, prefix) ==
    IF prefix = <<>> THEN TRUE
    ELSE IF str = <<>> THEN FALSE
    ELSE IF Head(str) # Head(prefix) THEN FALSE
    ELSE startsWith(Tail(str), Tail(prefix))

(* compareString(a, b) of the engine's string library (strcmp): the sign   *)
(* of the difference of the first bytes that differ, the end of a string   *)
(* counting as byte 0.                                                     *)
RECURSIVE compareString(_, _)
compareString(a, b) ==
    IF a = <<>> /\ b = <<>> THEN 0
    ELSE IF a = <<>> THEN -1
    ELSE IF b = <<>> THEN 1
    ELSE IF Head(a) < Head(b) THEN -1
    ELSE IF Head(a) > Head(b) THEN 1
    ELSE compareString(Tail(a), Tail(b))

(* The loop at the head of autocompleteSubstep: item is str up to its      *)
(* first '.' (or its end), next is what remains of str from there.         *)
RECURSIVE Item(_)
Item(str) ==
    IF str = <<>> \/ Head(str) = Dot THEN <<>>
    ELSE <<Head(str)>> \o Item(Tail(str))

NextOf(str) == SubSeq(str, Len(Item(str)) + 1, Len(str))

(* Mutant of NextPlusOne: the '.' is not stepped over. *)
NextPlusOne_same(next) == next

(* next + 1, the argument of the recursive call: the text after the '.'. *)
NextPlusOne(next) == Tail(next)

isWordChar(c) ==
    \/ c >= 97 /\ c <= 122
    \/ c >= 65 /\ c <= 90
    \/ c >= 48 /\ c <= 57
    \/ c = 95

(* The backwards scan for the start of the word that ends at the cursor.   *)
(* Index i of the C buffer is element i + 1 of the sequence.  c is read    *)
(* before start_word > 0 is tested, so the scan also reads the byte before *)
(* the word it stops at, which is index -1 when it stops at 0; that byte   *)
(* is never looked at.  reads is the set of indices read.                  *)
RECURSIVE ScanWord(_, _, _, _)
ScanWord(buf, start_word, with_dot, reads) ==
    LET c == buf[start_word]
    IN  IF start_word > 0 /\ (isWordChar(c) \/ (with_dot /\ c = Dot))
        THEN ScanWord(buf, start_word - 1, with_dot, reads \cup {start_word - 2})
        ELSE [start_word |-> start_word, reads |-> reads]

WordStart(buf, cursor, with_dot) == ScanWord(buf, cursor, with_dot, {cursor - 1})

(* copyNString(dst, dst_size, src, n): at most dst_size - 1 bytes of src. *)
copyNString(dst_size, src, n) ==
    SubSeq(src, 1, IF n < dst_size - 1 THEN n ELSE dst_size - 1)

(* qsort of the candidate list with compareString as its comparator. *)
RECURSIVE SortInsert(_, _)
SortInsert(sorted, s) ==
    IF sorted = <<>> THEN <<s>>
    ELSE IF compareString(s, Head(sorted)) <= 0 THEN <<s>> \o sorted
    ELSE <<Head(sorted)>> \o SortInsert(Tail(sorted), s)

(* Mutant of qsort: the list is left as the walk filled it. *)
qsort_skipped(list) == list

RECURSIVE qsort(_)
qsort(list) ==
    IF list = <<>> THEN <<>>
    ELSE SortInsert(qsort(SubSeq(list, 1, Len(list) - 1)), list[Len(list)])

----------------------------------------------------------------------------
(* The script runtime's C API, as autocompleteSubstep uses it.  A walk     *)
(* state st is the value stack, the candidates pushed so far, whether the  *)
(* runtime has thrown (an uncaught error: nothing after the throw runs)    *)
(* and the number of getters run.                                          *)

WalkState(stack, out, fatal, getters) ==
    [stack |-> stack, out |-> out, fatal |-> fatal, getters |-> getters]

(* The value at a stack index; negative indices count from the top. *)
StackAt(st, idx) == st.stack[Len(st.stack) + 1 + idx]

duk_push(st, v) == [st EXCEPT !.stack = Append(@, v)]

(* Mutant of duk_pop: the value is left on the stack. *)
duk_pop_kept(st) == st

duk_pop(st) == [st EXCEPT !.stack = SubSeq(@, 1, Len(@) - 1)]

(* duk_enum(ctx, idx, flags): pushes an enumerator over the keys of the    *)
(* object at idx; throws a TypeError when the value there is no object.    *)
duk_enum(st, idx) ==
    IF StackAt(st, idx).kind = "object"
    THEN duk_push(st, EnumValue(StackAt(st, idx).ref, 0))
    ELSE [st EXCEPT !.fatal = TRUE]

(* duk_next(ctx, idx, 0): whether the enumerator at idx has another key. *)
duk_next_more(st, idx) ==
    StackAt(st, idx).pos < Len(heap[StackAt(st, idx).ref])

(* duk_next(ctx, idx, 0) returning 1: advances the enumerator, pushes the key. *)
duk_next(st, idx) ==
    LET e == StackAt(st, idx)
        i == Len(st.stack) + 1 + idx
    IN  duk_push([st EXCEPT !.stack[i] = EnumValue(e.ref, e.pos + 1)],
                 KeyValue(heap[e.ref][e.pos + 1].name))

(* duk_get_prop_string(ctx, idx, name): pushes the value of the property   *)
(* name of the value at idx, running its getter when it is an accessor;    *)
(* undefined when there is no such property.                               *)
duk_get_prop_string(st, idx, name) ==
    LET o == StackAt(st, idx)
        props == IF o.kind = "object" THEN heap[o.ref] ELSE <<>>
        found == {i \in 1..Len(props) : props[i].name = name}
    IN  IF found = {} THEN duk_push(st, ScalarValue)
        ELSE LET p == props[CHOOSE i \in found : TRUE]
             IN  duk_push([st EXCEPT !.getters = IF p.accessor THEN @ + 1 ELSE @],
                          p.value)

(* autocompleteSubstep(ctx, str, data), with the object to walk on top of  *)
(* the value stack.  SubstepLoop is its while (duk_next(...)) loop.        *)
RECURSIVE autocompleteSubstep(_, _)
RECURSIVE SubstepLoop(_, _)

SubstepBody(str, st) ==
    LET name == StackAt(st, -1).str
        item == Item(str)
        next == NextOf(str)
    IN  IF ~startsWith(name, item) THEN st
        ELSE IF Len(next) = 1
        THEN LET r == autocompleteSubstep(<<>>, duk_get_prop_string(st, -3, name))
             IN  IF r.fatal THEN r ELSE duk_pop(r)
        ELSE IF next = <<>>
        THEN [st EXCEPT !.out = Append(@, name)]
        ELSE LET r == autocompleteSubstep(NextPlusOne(next), duk_get_prop_string(st, -3, name))
             IN  IF r.fatal THEN r ELSE duk_pop(r)

SubstepLoop(str, st) ==
    IF ~duk_next_more(st, -1) THEN st
    ELSE LET r == SubstepBody(str, duk_next(st, -1))
         IN  IF r.fatal THEN r ELSE SubstepLoop(str, duk_pop(r))

autocompleteSubstep(str, st) ==
    LET e == duk_enum(st, -1)
    IN  IF e.fatal THEN e
        ELSE LET r == SubstepLoop(str, e)
             IN  IF r.fatal THEN r ELSE duk_pop(r)

----------------------------------------------------------------------------
(* ConsolePlugin::autocompleteCallback on ImGuiInputTextFlags_Callback-    *)
(* Completion: the word before the cursor is resolved against the global   *)
(* object and the candidates are sorted.                                   *)

(* A const char* into the candidate list: null, the characters of a live   *)
(* element, the place of an element that clear() has destroyed since, or   *)
(* whatever a read past the ends of the list gave.                         *)
NullPointer == [kind |-> "null", str |-> <<>>]

PointerTo(s) == [kind |-> "string", str |-> s]

WildPointer == [kind |-> "wild", str |-> <<>>]

(* What clear() makes of a pointer into the list it empties. *)
Freed(p) == IF p.kind = "string" THEN [kind |-> "freed", str |-> p.str] ELSE p

(* The members of ConsolePlugin as constructed, no popup open. *)
NoChoice ==
    /\ insert_value = NullPointer
    /\ popup_open = FALSE
    /\ autocomplete_selected = 1
    /\ gui_pc = "input"

(* No scene, no command and no menu: the editor apart from the console. *)
NoEditor ==
    /\ scene = <<>>
    /\ entities = {}
    /\ components = {}
    /\ selected = 0
    /\ undo_stack = <<>>
    /\ undo_index = -1
    /\ menu_level = 0

CompletionQuery ==
    LET start_word == WordStart(Buf, CursorPos, TRUE).start_word
    IN  copyNString(TmpSize, SubSeq(Buf, start_word + 1, Len(Buf)), CursorPos - start_word)

(* Mutant of ArrayClear: the earlier candidates are kept. *)
ArrayClear_kept(list) == list

(* Array<string>::clear() of the candidate list. *)
ArrayClear(list) == <<>>

CompletionWalk(list) ==
    LET pushed == duk_push(WalkState(vstack, list, FALSE, 0), ObjectValue(GlobalObject))
        r == autocompleteSubstep(CompletionQuery, pushed)
    IN  IF r.fatal THEN r ELSE duk_pop(r)

Completion ==
    /\ callback # "fatal"
    /\ gui_pc = "input"
    /\ gui_pc' = "popup"
    /\ insert_value' = Freed(insert_value)
    /\ UNCHANGED <<popup_open, autocomplete_selected, editorVars>>
    /\ LET r == CompletionWalk(ArrayClear(autocomplete))
       IN  /\ vstack' = r.stack
           /\ getter_calls' = r.getters
           /\ IF r.fatal
              THEN /\ callback' = "fatal"
                   /\ autocomplete' = r.out
                   /\ UNCHANGED open_autocomplete
              ELSE /\ callback' = "returned"
                   /\ autocomplete' = qsort(r.out)
                   /\ open_autocomplete' = (open_autocomplete \/ r.out # <<>>)
    /\ UNCHANGED <<heap, Buf, CursorPos, frames, substep_out>>

----------------------------------------------------------------------------
(* The resolver as a function of the namespace and the query: every heap   *)
(* and every query within the bounds, the cursor at the end of the query.  *)

InitResolve ==
    /\ heap \in Heaps
    /\ Buf \in Queries
    /\ CursorPos = Len(Buf)
    /\ autocomplete = <<>>
    /\ open_autocomplete = FALSE
    /\ callback = "none"
    /\ getter_calls = 0
    /\ vstack = <<>>
    /\ frames = <<>>
    /\ substep_out = <<>>
    /\ NoChoice
    /\ NoEditor

NextResolve == Completion

SpecResolve == InitResolve /\ [][NextResolve]_vars

----------------------------------------------------------------------------
(* The console: the user edits the text, moves the cursor, runs the text   *)
(* as a script and asks for completions.  The namespace starts as one of   *)
(* three: empty, a nested one, and one with a self-reference.              *)

DataProperty(n, v) == Property(n, FALSE, v)

EmptyHeap == [o \in Objects |-> <<>>]

NestedHeap ==
    [o \in Objects |->
        IF o = GlobalObject
        THEN <<DataProperty(<<97, 98>>, ObjectValue(1)), DataProperty(<<97>>, ObjectValue(1))>>
        ELSE <<DataProperty(<<97, 98>>, ScalarValue), DataProperty(<<97>>, ScalarValue)>>]

CyclicHeap ==
    [o \in Objects |->
        IF o = GlobalObject
        THEN <<DataProperty(<<97>>, ObjectValue(1))>>
        ELSE <<DataProperty(<<97, 98>>, ScalarValue), DataProperty(<<97>>, ObjectValue(1))>>]

ConsoleHeaps == {EmptyHeap, NestedHeap, CyclicHeap}

Init ==
    /\ heap \in ConsoleHeaps
    /\ Buf = <<>>
    /\ CursorPos = 0
    /\ autocomplete = <<>>
    /\ open_autocomplete = FALSE
    /\ callback = "none"
    /\ getter_calls = 0
    /\ vstack = <<>>
    /\ frames = <<>>
    /\ substep_out = <<>>
    /\ NoChoice
    /\ NoEditor

(* ImGui::InputTextMultiline: a typed character goes in at the cursor. *)
TypeChar ==
    /\ callback # "fatal"
    /\ gui_pc = "input"
    /\ Len(Buf) < MaxLen
    /\ \E c \in BufChars :
           Buf' = SubSeq(Buf, 1, CursorPos) \o <<c>> \o SubSeq(Buf, CursorPos + 1, Len(Buf))
    /\ CursorPos' = CursorPos + 1
    /\ callback' = "none"
    /\ UNCHANGED <<heap, autocomplete, open_autocomplete, getter_calls, vstack, frames,
                   substep_out>>
    /\ UNCHANGED <<popupVars, editorVars>>

(* ImGui::InputTextMultiline: backspace removes the character before the cursor. *)
Backspace ==
    /\ callback # "fatal"
    /\ gui_pc = "input"
    /\ CursorPos > 0
    /\ Buf' = SubSeq(Buf, 1, CursorPos - 1) \o SubSeq(Buf, CursorPos + 1, Len(Buf))
    /\ CursorPos' = CursorPos - 1
    /\ callback' = "none"
    /\ UNCHANGED <<heap, autocomplete, open_autocomplete, getter_calls, vstack, frames,
                   substep_out>>
    /\ UNCHANGED <<popupVars, editorVars>>

(* ImGui::InputTextMultiline: the arrow keys move the cursor. *)
MoveCursor ==
    /\ callback # "fatal"
    /\ gui_pc = "input"
    /\ \E pos \in {CursorPos - 1, CursorPos + 1} :
           /\ pos >= 0
           /\ pos <= Len(Buf)
           /\ CursorPos' = pos
    /\ callback' = "none"
    /\ UNCHANGED <<heap, Buf, autocomplete, open_autocomplete, getter_calls, vstack, frames,
                   substep_out>>
    /\ UNCHANGED <<popupVars, editorVars>>

(* The Execute button: duk_peval of the text, which may define and delete  *)
(* properties; an error of the script is caught and logged.                *)
Execute ==
    /\ callback # "fatal"
    /\ gui_pc = "input"
    /\ heap' \in ConsoleHeaps \ {heap}
    /\ callback' = "none"
    /\ UNCHANGED <<Buf, CursorPos, autocomplete, open_autocomplete, getter_calls, vstack,
                   frames, substep_out>>
    /\ UNCHANGED <<popupVars, editorVars>>

(* The capacity of the text buffer, cut down to the bounds: no insertion   *)
(* makes the text longer than MaxLen characters.                           *)
BufSize == MaxLen + 2

(* ImGuiTextEditCallbackData::InsertChars at the cursor: nothing is done   *)
(* when the text would not fit.                                            *)
InsertChars(buf, pos, new_text) ==
    IF Len(new_text) + Len(buf) + 1 >= BufSize
    THEN [Buf |-> buf, CursorPos |-> pos]
    ELSE [Buf |-> SubSeq(buf, 1, pos) \o new_text \o SubSeq(buf, pos + 1, Len(buf)),
          CursorPos |-> pos + Len(new_text)]

(* insert_value + offset is a string of the program only while the pointer *)
(* is live and the offset is within the candidate.                         *)
DefinedRead(p, offset) == p.kind = "string" /\ offset <= Len(p.str)

(* What a read of memory that holds no string of the program may give:     *)
(* nothing, some byte, and from a destroyed element its former characters. *)
GarbageTexts(p, offset) ==
    {<<>>, <<98>>} \cup
    (IF p.kind = "freed" /\ offset <= Len(p.str)
     THEN {SubSeq(p.str, offset + 1, Len(p.str))}
     ELSE {})

(* The characters at insert_value + offset. *)
InsertedTexts(p, offset) ==
    IF DefinedRead(p, offset)
    THEN {SubSeq(p.str, offset + 1, Len(p.str))}
    ELSE GarbageTexts(p, offset)

(* autocompleteCallback called with a pending insertion and no completion  *)
(* request: the rest of the chosen candidate goes in at the cursor.  A     *)
(* read outside the candidate may also end the program.                    *)
Insertion ==
    /\ callback # "fatal"
    /\ gui_pc = "input"
    /\ insert_value # NullPointer
    /\ LET start_word == WordStart(Buf, CursorPos, FALSE).start_word
           offset == CursorPos - start_word
       IN  \/ \E text \in InsertedTexts(insert_value, offset) :
                  LET r == InsertChars(Buf, CursorPos, text)
                  IN  /\ Buf' = r.Buf
                      /\ CursorPos' = r.CursorPos
                      /\ callback' = "inserted"
                      /\ insert_value' = NullPointer
           \/ /\ ~DefinedRead(insert_value, offset)
              /\ callback' = "fatal"
              /\ UNCHANGED <<Buf, CursorPos, insert_value>>
    /\ gui_pc' = "popup"
    /\ UNCHANGED <<heap, autocomplete, open_autocomplete, getter_calls, vstack, frames,
                   substep_out, popup_open, autocomplete_selected, editorVars>>

(* Math::clamp *)
clamp(value, min_value, max_value) ==
    LET raised == IF value < min_value THEN min_value ELSE value
    IN  IF raised > max_value THEN max_value ELSE raised

(* autocomplete_selected when the Enter key is looked at: the arrow keys   *)
(* of the frame have been counted and the clamp has not run yet.           *)
SelectedAtEnter(Down, Up) ==
    autocomplete_selected + (IF Down THEN 1 ELSE 0) - (IF Up THEN 1 ELSE 0)

(* onWindowGUI after the text input: the popup is opened when a request    *)
(* asked for it, and while it is shown a single candidate is chosen at     *)
(* once, the arrow keys move the selection, Enter chooses the selected     *)
(* candidate, Escape closes the popup and a click chooses a candidate and  *)
(* closes the popup.  A frame in which the text input called nothing back  *)
(* is this alone.  A click elsewhere closes the popup as Escape does.      *)
(* Enter with the selection outside the list reads outside the array,      *)
(* which gives some pointer or ends the program.                           *)
Popup ==
    /\ callback # "fatal"
    /\ \E Down, Up, Enter, Escape \in BOOLEAN :
       \E clicked \in 0..Len(autocomplete) :
           LET shown == popup_open \/ open_autocomplete
               moved == SelectedAtEnter(Down, Up)
               in_range == moved >= 0 /\ moved < Len(autocomplete)
               single == IF Len(autocomplete) = 1
                         THEN PointerTo(autocomplete[1])
                         ELSE insert_value
               entered == IF ~Enter THEN single
                          ELSE IF in_range THEN PointerTo(autocomplete[moved + 1])
                          ELSE WildPointer
               chosen == IF clicked = 0 THEN entered ELSE PointerTo(autocomplete[clicked])
           IN  IF ~shown
               THEN /\ ~Down /\ ~Up /\ ~Enter /\ ~Escape /\ clicked = 0
                    /\ UNCHANGED <<insert_value, popup_open, autocomplete_selected, callback>>
               ELSE IF Enter /\ ~in_range
               THEN /\ insert_value' = WildPointer
                    /\ \/ /\ callback' = "fatal"
                          /\ UNCHANGED <<popup_open, autocomplete_selected>>
                       \/ /\ popup_open' = (~Escape /\ clicked = 0)
                          /\ autocomplete_selected' = clamp(moved, 0, Len(autocomplete) - 1)
                          /\ UNCHANGED callback
               ELSE /\ insert_value' = chosen
                    /\ popup_open' = (~Escape /\ clicked = 0)
                    /\ autocomplete_selected' = clamp(moved, 0, Len(autocomplete) - 1)
                    /\ UNCHANGED callback
    /\ open_autocomplete' = FALSE
    /\ gui_pc' = "input"
    /\ UNCHANGED <<heap, Buf, CursorPos, autocomplete, getter_calls, vstack, frames,
                   substep_out, editorVars>>

Next ==
    \/ TypeChar
    \/ Backspace
    \/ MoveCursor
    \/ Execute
    \/ Completion
    \/ Insertion
    \/ Popup

Spec == Init /\ [][Next]_vars

----------------------------------------------------------------------------
(* The walk of one completion request, call by call: frames holds the      *)
(* active calls of autocompleteSubstep, each with its argument str and     *)
(* the place it is at: "enum" before duk_enum, "next" at the test of the   *)
(* while loop, "called" while the recursive call it made is running.       *)

Frame(str, pc) == [str |-> str, pc |-> pc]

TopFrame == frames[Len(frames)]

Walking == WalkState(vstack, substep_out, FALSE, getter_calls)

SetTopPc(pc) == [frames EXCEPT ![Len(frames)].pc = pc]

(* The heaps without accessor properties: a getter changes nothing of the  *)
(* walk but getter_calls.                                                  *)
DataHeaps == {h \in Heaps : \A o \in Objects : \A i \in 1..Len(h[o]) : ~h[o][i].accessor}

InitSub ==
    /\ heap \in DataHeaps
    /\ Buf \in Queries
    /\ CursorPos = Len(Buf)
    /\ autocomplete = <<>>
    /\ open_autocomplete = FALSE
    /\ callback = "none"
    /\ getter_calls = 0
    /\ vstack = <<>>
    /\ frames = <<>>
    /\ substep_out = <<>>
    /\ NoChoice
    /\ NoEditor

(* autocompleteCallback up to its call of autocompleteSubstep. *)
SubBegin ==
    /\ callback = "none"
    /\ callback' = "running"
    /\ substep_out' = ArrayClear(autocomplete)
    /\ vstack' = duk_push(Walking, ObjectValue(GlobalObject)).stack
    /\ frames' = <<Frame(CompletionQuery, "enum")>>
    /\ getter_calls' = 0
    /\ UNCHANGED <<heap, Buf, CursorPos, autocomplete, open_autocomplete>>
    /\ UNCHANGED <<popupVars, editorVars>>

(* The head of autocompleteSubstep: item is cut off str, duk_enum. *)
SubEnum ==
    /\ callback = "running"
    /\ frames # <<>>
    /\ TopFrame.pc = "enum"
    /\ LET e == duk_enum(Walking, -1)
       IN  IF e.fatal
           THEN /\ callback' = "fatal"
                /\ UNCHANGED <<vstack, frames>>
           ELSE /\ vstack' = e.stack
                /\ frames' = SetTopPc("next")
                /\ UNCHANGED callback
    /\ UNCHANGED <<heap, Buf, CursorPos, autocomplete, open_autocomplete, getter_calls,
                   substep_out>>
    /\ UNCHANGED <<popupVars, editorVars>>

(* One turn of the while loop up to the end of its body or to the          *)
(* recursive call it makes.                                                *)
SubNext ==
    /\ callback = "running"
    /\ frames # <<>>
    /\ TopFrame.pc = "next"
    /\ duk_next_more(Walking, -1)
    /\ LET st == duk_next(Walking, -1)
           name == StackAt(st, -1).str
           item == Item(TopFrame.str)
           next == NextOf(TopFrame.str)
       IN  IF ~startsWith(name, item)
           THEN /\ vstack' = duk_pop(st).stack
                /\ UNCHANGED <<frames, substep_out, getter_calls>>
           ELSE IF Len(next) = 1
           THEN LET g == duk_get_prop_string(st, -3, name)
                IN  /\ vstack' = g.stack
                    /\ getter_calls' = g.getters
                    /\ frames' = Append(SetTopPc("called"), Frame(<<>>, "enum"))
                    /\ UNCHANGED substep_out
           ELSE IF next = <<>>
           THEN /\ substep_out' = Append(substep_out, name)
                /\ vstack' = duk_pop(st).stack
                /\ UNCHANGED <<frames, getter_calls>>
           ELSE LET g == duk_get_prop_string(st, -3, name)
                IN  /\ vstack' = g.stack
                    /\ getter_calls' = g.getters
                    /\ frames' = Append(SetTopPc("called"), Frame(NextPlusOne(next), "enum"))
                    /\ UNCHANGED substep_out
    /\ UNCHANGED <<heap, Buf, CursorPos, autocomplete, open_autocomplete, callback>>
    /\ UNCHANGED <<popupVars, editorVars>>

(* The loop ends: the enumerator is popped and the call returns; the       *)
(* caller pops the value it had fetched and the key.                       *)
SubReturn ==
    /\ callback = "running"
    /\ frames # <<>>
    /\ TopFrame.pc = "next"
    /\ ~duk_next_more(Walking, -1)
    /\ LET returned == duk_pop(Walking)
           callers == SubSeq(frames, 1, Len(frames) - 1)
       IN  IF callers = <<>>
           THEN /\ vstack' = returned.stack
                /\ frames' = callers
           ELSE /\ vstack' = duk_pop(duk_pop(returned)).stack
                /\ frames' = [callers EXCEPT ![Len(callers)].pc = "next"]
    /\ UNCHANGED <<heap, Buf, CursorPos, autocomplete, open_autocomplete, callback,
                   getter_calls, substep_out>>
    /\ UNCHANGED <<popupVars, editorVars>>

(* autocompleteCallback after the call: the global object is popped and    *)
(* the candidates are sorted.                                              *)
SubEnd ==
    /\ callback = "running"
    /\ frames = <<>>
    /\ callback' = "returned"
    /\ vstack' = duk_pop(Walking).stack
    /\ autocomplete' = qsort(substep_out)
    /\ open_autocomplete' = (open_autocomplete \/ substep_out # <<>>)
    /\ UNCHANGED <<heap, Buf, CursorPos, getter_calls, frames, substep_out>>
    /\ UNCHANGED <<popupVars, editorVars>>

NextSub ==
    \/ SubBegin
    \/ SubEnum
    \/ SubNext
    \/ SubReturn
    \/ SubEnd

SpecSub == InitSub /\ [][NextSub]_vars

----------------------------------------------------------------------------
(* What the specification says of a query, stated without the walker.      *)

Query == CompletionQuery

LastDot(q) ==
    IF \E i \in 1..Len(q) : q[i] = Dot
    THEN CHOOSE i \in 1..Len(q) : q[i] = Dot /\ \A j \in (i + 1)..Len(q) : q[j] # Dot
    ELSE 0

TrailingSegment(q) == SubSeq(q, LastDot(q) + 1, Len(q))

RECURSIVE SplitDots(_)
SplitDots(s) ==
    IF \E i \in 1..Len(s) : s[i] = Dot
    THEN LET d == CHOOSE i \in 1..Len(s) : s[i] = Dot /\ \A j \in 1..(i - 1) : s[j] # Dot
         IN  <<SubSeq(s, 1, d - 1)>> \o SplitDots(SubSeq(s, d + 1, Len(s)))
    ELSE <<s>>

(* The segments before the last '.', none when the query has no '.'. *)
HeadSegments(q) ==
    IF LastDot(q) = 0 THEN <<>> ELSE SplitDots(SubSeq(q, 1, LastDot(q) - 1))

SegmentCount(q) == Len(HeadSegments(q)) + 1

MissingValue == [kind |-> "missing", ref |-> 0, pos |-> 0, str |-> <<>>]

(* Exact traversal: the value reached by following the segments by exact   *)
(* name; missing when a name is absent, the non-object met when a segment  *)
(* is to be looked up in a value that is no namespace node.                *)
RECURSIVE ExactTraverse(_, _)
ExactTraverse(v, segs) ==
    IF segs = <<>> THEN v
    ELSE IF v.kind # "object" THEN v
    ELSE LET found == {i \in 1..Len(heap[v.ref]) : heap[v.ref][i].name = Head(segs)}
         IN  IF found = {} THEN MissingValue
             ELSE ExactTraverse(heap[v.ref][CHOOSE i \in found : TRUE].value, Tail(segs))

ExactNode(q) == ExactTraverse(ObjectValue(GlobalObject), HeadSegments(q))

HasPrefix(name, prefix) ==
    Len(prefix) <= Len(name) /\ SubSeq(name, 1, Len(prefix)) = prefix

BytewiseLess(a, b) ==
    \E i \in 1..Len(b) :
        /\ \A j \in 1..(i - 1) : j <= Len(a) /\ a[j] = b[j]
        /\ (i > Len(a) \/ a[i] < b[i])

BytewiseLeq(a, b) == a = b \/ BytewiseLess(a, b)

(* The ascending sequence of the strings of a set. *)
RECURSIVE Ascending(_)
Ascending(S) ==
    IF S = {} THEN <<>>
    ELSE LET least == CHOOSE x \in S : \A y \in S : BytewiseLeq(x, y)
         IN  <<least>> \o Ascending(S \ {least})

MatchingNames(o, prefix) ==
    {heap[o][i].name : i \in {j \in 1..Len(heap[o]) : HasPrefix(heap[o][j].name, prefix)}}

Malformed(q) ==
    /\ q # <<>>
    /\ \/ q[1] = Dot
       \/ \E i \in 1..(Len(q) - 1) : q[i] = Dot /\ q[i + 1] = Dot

----------------------------------------------------------------------------
(* C1: when every segment before the last '.' exactly names a nested       *)
(* namespace node, the candidates after a completion request are the       *)
(* sorted property names of the node reached that begin with the text      *)
(* after the last '.', and no name of any other node.                      *)
C1_ExactTraversalResult ==
    (callback = "returned" /\ ExactNode(Query).kind = "object")
        => autocomplete = Ascending(MatchingNames(ExactNode(Query).ref, TrailingSegment(Query)))

(* C2: when some segment before the last '.' is not exactly the name of a  *)
(* property of the node reached so far, the candidate list after the       *)
(* request is empty.                                                       *)
C2_MissingSegmentEmpty ==
    (callback # "none" /\ ExactNode(Query).kind = "missing")
        => (callback = "returned" /\ autocomplete = <<>>)

(* C3: when a segment before the last '.' names a property whose value is  *)
(* not a namespace node, the request ends with an empty candidate list     *)
(* and no error is raised in the script runtime.                           *)
C3_NonNamespaceSilent ==
    (callback # "none" /\ ExactNode(Query).kind = "scalar")
        => (callback = "returned" /\ autocomplete = <<>>)

(* C5: after every completion request the candidate list is in ascending   *)
(* byte-wise order.                                                        *)
C5_Sorted ==
    callback = "returned"
        => \A i \in 1..(Len(autocomplete) - 1) :
               BytewiseLeq(autocomplete[i], autocomplete[i + 1])

(* C5 witness: a request returned two candidates that the namespace        *)
(* enumerates in descending order.                                         *)
C5_Witness ==
    /\ callback = "returned"
    /\ Len(autocomplete) >= 2
    /\ Len(heap[GlobalObject]) = 2
    /\ BytewiseLess(heap[GlobalObject][2].name, heap[GlobalObject][1].name)
    /\ Query = <<>>

(* C6: for a query with a leading '.' or an empty segment between two      *)
(* '.', the candidate list after the request is empty and no error is      *)
(* raised: an empty segment is no wildcard.                                *)
C6_MalformedEmpty ==
    (callback # "none" /\ Malformed(Query))
        => (callback = "returned" /\ autocomplete = <<>>)

(* C7: every candidate begins with the text after the last '.' of the      *)
(* query.                                                                  *)
C7_CandidatesHavePrefix ==
    callback # "none"
        => \A i \in 1..Len(autocomplete) : HasPrefix(autocomplete[i], TrailingSegment(Query))

(* C7 witness: a request with a non-empty trailing segment kept a          *)
(* candidate and left out a name of the enumerated node.                   *)
C7_Witness ==
    /\ callback = "returned"
    /\ TrailingSegment(Query) # <<>>
    /\ autocomplete # <<>>
    /\ ExactNode(Query).kind = "object"
    /\ \E i \in 1..Len(heap[ExactNode(Query).ref]) :
           ~HasPrefix(heap[ExactNode(Query).ref][i].name, TrailingSegment(Query))

(* C8: the candidate list holds no string twice. *)
C8_NoDuplicates ==
    callback = "returned"
        => \A i, j \in 1..Len(autocomplete) : autocomplete[i] = autocomplete[j] => i = j

(* C10: a completion request changes nothing of the namespace and runs no  *)
(* property getter.                                                        *)
C10_ReadOnlyNoGetter == [][heap' = heap /\ getter_calls' = 0]_vars

(* C9: the candidate list after a request is the result of that request   *)
(* alone: the walk's candidates added to an empty list, sorted.            *)
C9_ListIsLastResult ==
    callback = "returned" => autocomplete = qsort(CompletionWalk(<<>>).out)

(* C9 witness: a request that matched nothing, after an earlier request    *)
(* had found candidates (whose popup is still open).                       *)
C9_Witness ==
    /\ callback = "returned"
    /\ popup_open
    /\ autocomplete = <<>>

(* The number of '.'-separated segments of a string. *)
SegmentsOf(str) == Cardinality({i \in 1..Len(str) : str[i] = Dot}) + 1

(* A bound on the steps a call of the walker with k segments to go takes   *)
(* on the heap: its duk_enum, its return, and for each key one turn of     *)
(* the loop and at most one call with a segment less.                      *)
MaxFanOut == CHOOSE n \in 0..Cardinality(PropertyNames) :
                 /\ \A o \in Objects : Len(heap[o]) <= n
                 /\ \E o \in Objects : Len(heap[o]) = n

RECURSIVE CallBound(_)
CallBound(k) == IF k = 0 THEN 0 ELSE 2 + MaxFanOut * (1 + CallBound(k - 1))

(* The steps frame i has yet to take: the enumerator of frame i is the     *)
(* value above the object it walks, three values per active call.          *)
FrameRank(i) ==
    LET k == SegmentsOf(frames[i].str)
        e == vstack[3 * i - 1]
    IN  IF frames[i].pc = "enum" THEN CallBound(k)
        ELSE 1 + (Len(heap[e.ref]) - e.pos) * (1 + CallBound(k - 1))

RECURSIVE SumFrameRanks(_)
SumFrameRanks(i) == IF i = 0 THEN 0 ELSE FrameRank(i) + SumFrameRanks(i - 1)

(* A variant of the walk: a natural number that every step lowers. *)
WalkRank ==
    IF callback = "none" THEN 2 + CallBound(SegmentsOf(Query))
    ELSE IF callback = "running" THEN 1 + SumFrameRanks(Len(frames))
    ELSE 0

(* C4: a completion request ends, and the calls of autocompleteSubstep     *)
(* are never nested deeper than the query has '.'-separated segments.      *)
(* That it ends: while it runs the innermost call is at a place from which *)
(* it steps (SubEnum at "enum", SubNext or SubReturn at "next", SubEnd     *)
(* when no call is left), and every step lowers a natural number.          *)
C4_TerminatesDepthBounded ==
    /\ [](Len(frames) <= SegmentCount(Query))
    /\ []((callback = "running" /\ frames # <<>>) => TopFrame.pc \in {"enum", "next"})
    /\ [](WalkRank >= 0)
    /\ [][WalkRank' < WalkRank]_vars

(* C4 witness: on a namespace with a cycle the walk of a well-formed query *)
(* is nested as deep as the query has segments, inside an object that it   *)
(* is already walking further out.                                         *)
C4_Witness ==
    /\ callback = "running"
    /\ ~Malformed(Query)
    /\ Len(frames) >= 2
    /\ Len(frames) = SegmentCount(Query)
    /\ vstack[Len(vstack)].kind = "enum"
    /\ Cardinality({i \in 1..Len(vstack) :
                       vstack[i].kind = "enum" /\ vstack[i].ref = vstack[Len(vstack)].ref}) >= 2

----------------------------------------------------------------------------
(* The popup and the insertion of the chosen candidate.                    *)

(* The word characters that end at the cursor. *)
WordAtCursor(buf, cursor) == SubSeq(buf, WordStart(buf, cursor, FALSE).start_word + 1, cursor)

(* C11: when the callback consumes a chosen candidate, the typed word is   *)
(* no longer than the candidate, the rest of the candidate is inserted at  *)
(* the cursor so that the word ending at the cursor is the candidate, and  *)
(* the pending value is cleared.                                           *)
C11_InsertsRestOfCandidate ==
    [][(Insertion /\ insert_value.kind = "string")
          => LET candidate == insert_value.str
                 offset == Len(WordAtCursor(Buf, CursorPos))
             IN  /\ offset <= Len(candidate)
                 /\ Buf' = SubSeq(Buf, 1, CursorPos)
                               \o SubSeq(candidate, offset + 1, Len(candidate))
                               \o SubSeq(Buf, CursorPos + 1, Len(Buf))
                 /\ WordAtCursor(Buf', CursorPos') = candidate
                 /\ insert_value' = NullPointer]_vars

(* C18: Enter reads autocomplete[autocomplete_selected] inside the list:   *)
(* the pointer the popup stores is never the outcome of a read outside it. *)
C18_EnterReadsInsideList == insert_value # WildPointer

(* C19: a pending insertion that the callback consumes points to an        *)
(* element of the current candidate list: the list was not cleared since   *)
(* the candidate was chosen.                                               *)
C19_PendingValueIsLive ==
    [][(Insertion /\ insert_value # WildPointer)
          => /\ insert_value.kind = "string"
             /\ \E i \in 1..Len(autocomplete) : autocomplete[i] = insert_value.str]_vars

----------------------------------------------------------------------------
(* The scripts of the components, the commands that the property grid     *)
(* makes of them and the editor's command stack.  A script is its source   *)
(* path and the value of its property x; values are strings.               *)

MaxScripts == 2

MaxCommands == 1

MaxCopies == 2

MaxValueLen == 2

Components == {1, 2}

Dash == 45

(* "-source", cut down to two characters. *)
SourceName == <<Dash, 115>>

XName == <<120>>

(* The values a widget of the property grid gives. *)
EditedValues == {<<48>>, <<49>>}

(* A value as long as a script can make it. *)
LongValue == [i \in 1..MaxValueLen |-> 49]

Values == EditedValues \cup {LongValue}

Paths == {<<>>, <<115>>}

(* char tmp[1024] of the constructor of SetPropertyCommand, cut down to    *)
(* the bounds: the widgets' values fit, the longest value does not.        *)
ValueTmpSize == MaxValueLen

Script(path, x) == [path |-> path, x |-> x]

NewScript == Script(<<>>, <<48>>)

(* What a slot of the array holds after it was swapped with memory outside *)
(* the array.                                                              *)
GarbageScript == Script(<<63>>, <<63>>)

getScriptCount(s, cmp) == Len(s[cmp])

ValidScript(s, cmp, scr_index) == scr_index >= 0 /\ scr_index < Len(s[cmp])

RemoveAt(list, i) == SubSeq(list, 1, i) \o SubSeq(list, i + 2, Len(list))

InsertAt(list, i, e) == SubSeq(list, 1, i) \o <<e>> \o SubSeq(list, i + 1, Len(list))

addScript(s, cmp) == [s EXCEPT ![cmp] = Append(@, NewScript)]

removeScript(s, cmp, scr_index) ==
    IF ValidScript(s, cmp, scr_index)
    THEN [s EXCEPT ![cmp] = RemoveAt(@, scr_index)]
    ELSE s

insertScript(s, cmp, idx) ==
    IF idx >= 0 /\ idx <= Len(s[cmp])
    THEN [s EXCEPT ![cmp] = InsertAt(@, idx, NewScript)]
    ELSE s

serializeScript(s, cmp, scr_index) == s[cmp][scr_index + 1]

deserializeScript(s, cmp, scr_index, data) ==
    IF ValidScript(s, cmp, scr_index)
    THEN [s EXCEPT ![cmp][scr_index + 1] = data]
    ELSE s

(* moveScript swaps the script with its neighbour and does nothing at the  *)
(* ends of the list.  An index outside the list is outside what it is made *)
(* for: it may do nothing, or swap the neighbour with memory outside the   *)
(* array.                                                                  *)
moveScript(s, cmp, scr_index, up) ==
    LET other == IF up THEN scr_index - 1 ELSE scr_index + 1
    IN  IF ~ValidScript(s, cmp, scr_index)
        THEN {s} \cup (IF ValidScript(s, cmp, other)
                       THEN {[s EXCEPT ![cmp][other + 1] = GarbageScript]}
                       ELSE {})
        ELSE IF ~ValidScript(s, cmp, other)
        THEN {s}
        ELSE {[s EXCEPT ![cmp][scr_index + 1] = s[cmp][other + 1],
                        ![cmp][other + 1] = s[cmp][scr_index + 1]]}

getScriptPath(s, cmp, scr_index) ==
    IF ValidScript(s, cmp, scr_index) THEN s[cmp][scr_index + 1].path ELSE <<>>

setScriptPath(s, cmp, scr_index, path) ==
    IF ValidScript(s, cmp, scr_index)
    THEN [s EXCEPT ![cmp][scr_index + 1].path = path]
    ELSE s

(* The value goes into a buffer of max_size bytes, the terminator included. *)
getPropertyValue(s, cmp, scr_index, property_name, max_size) ==
    IF ValidScript(s, cmp, scr_index) /\ property_name = XName
    THEN LET stored == s[cmp][scr_index + 1].x
         IN  IF Len(stored) > max_size - 1 THEN SubSeq(stored, 1, max_size - 1) ELSE stored
    ELSE <<>>

setPropertyValue(s, cmp, scr_index, property_name, value) ==
    IF ValidScript(s, cmp, scr_index) /\ property_name = XName
    THEN [s EXCEPT ![cmp][scr_index + 1].x = value]
    ELSE s

(* The fields of the four commands, in one shape. *)
Command(type, cmp, scr_index) ==
    [type |-> type, cmp |-> cmp, scr_index |-> scr_index, up |-> FALSE,
     property_name |-> <<>>, value |-> <<>>, old_value |-> <<>>, blob |-> <<>>]

AddScriptCommand(cmp) == Command("add_script", cmp, -1)

RemoveScriptCommand(cmp, scr_index) == Command("remove_script", cmp, scr_index)

MoveScriptCommand(cmp, scr_index, up) ==
    [Command("move_script", cmp, scr_index) EXCEPT !.up = up]

(* property_name[0] == '-' *)
NamesPath(property_name) == property_name # <<>> /\ property_name[1] = Dash

SetPropertyCommand(s, cmp, scr_index, property_name, val) ==
    [Command("set_script_property", cmp, scr_index) EXCEPT
        !.property_name = property_name,
        !.value = val,
        !.old_value = IF NamesPath(property_name)
                      THEN getScriptPath(s, cmp, scr_index)
                      ELSE getPropertyValue(s, cmp, scr_index, property_name, ValueTmpSize)]

(* The index that MoveScriptCommand::undo passes to moveScript. *)
MoveUndoIndex(cmd) == IF cmd.up THEN cmd.scr_index - 1 ELSE cmd.scr_index + 1

Outcome(cmd, s) == [cmd |-> cmd, scene |-> s]

(* execute() of a command: the outcomes, each the command and the scene. *)
execute(cmd, s) ==
    IF cmd.type = "add_script"
    THEN {Outcome([cmd EXCEPT !.scr_index = getScriptCount(s, cmd.cmp)], addScript(s, cmd.cmp))}
    ELSE IF cmd.type = "remove_script"
    THEN {Outcome([cmd EXCEPT !.blob = Append(@, serializeScript(s, cmd.cmp, cmd.scr_index))],
                  removeScript(s, cmd.cmp, cmd.scr_index))}
    ELSE IF cmd.type = "move_script"
    THEN {Outcome(cmd, moved) : moved \in moveScript(s, cmd.cmp, cmd.scr_index, cmd.up)}
    ELSE IF NamesPath(cmd.property_name)
    THEN {Outcome(cmd, setScriptPath(s, cmd.cmp, cmd.scr_index, cmd.value))}
    ELSE {Outcome(cmd, setPropertyValue(s, cmd.cmp, cmd.scr_index, cmd.property_name, cmd.value))}

(* undo() of a command: the scenes it may leave. *)
undo(cmd, s) ==
    IF cmd.type = "add_script"
    THEN {removeScript(s, cmd.cmp, cmd.scr_index)}
    ELSE IF cmd.type = "remove_script"
    THEN {deserializeScript(insertScript(s, cmd.cmp, cmd.scr_index), cmd.cmp, cmd.scr_index,
                            cmd.blob[1])}
    ELSE IF cmd.type = "move_script"
    THEN moveScript(s, cmd.cmp, MoveUndoIndex(cmd), ~cmd.up)
    ELSE IF NamesPath(cmd.property_name)
    THEN {setScriptPath(s, cmd.cmp, cmd.scr_index, cmd.old_value)}
    ELSE {setPropertyValue(s, cmd.cmp, cmd.scr_index, cmd.property_name, cmd.old_value)}

(* this->merge(cmd): whether this was merged into cmd, and cmd after it. *)
merge(this, cmd) ==
    IF /\ this.type = "set_script_property"
       /\ cmd.scr_index = this.scr_index
       /\ cmd.property_name = this.property_name
    THEN [merged |-> TRUE, cmd |-> [cmd EXCEPT !.value = this.value]]
    ELSE [merged |-> FALSE, cmd |-> cmd]

(* The editor: its scene and its command stack, of which the commands up   *)
(* to undo_index are executed.                                             *)
EditorState(s, stack, index) == [scene |-> s, stack |-> stack, index |-> index]

Editor == EditorState(scene, undo_stack, undo_index)

(* WorldEditor::executeCommand: a command of the type of the last executed *)
(* one is offered to merge into it, and the merged command is executed     *)
(* again; otherwise the undone commands are dropped, the command is pushed *)
(* and executed.                                                           *)
executeCommand(ed, command) ==
    LET done == ed.index + 1
        merged == IF done >= 1 /\ command.type = ed.stack[done].type
                  THEN merge(command, ed.stack[done])
                  ELSE [merged |-> FALSE, cmd |-> command]
    IN  IF merged.merged
        THEN {EditorState(r.scene, [ed.stack EXCEPT ![done] = r.cmd], ed.index) :
                  r \in execute(merged.cmd, ed.scene)}
        ELSE {EditorState(r.scene, Append(SubSeq(ed.stack, 1, done), r.cmd), done) :
                  r \in execute(command, ed.scene)}

(* The stack of the model holds MaxCommands commands. *)
Fits(ed) == Len(ed.stack) <= MaxCommands

SetEditor(ed) ==
    /\ Fits(ed)
    /\ scene' = ed.scene
    /\ undo_stack' = ed.stack
    /\ undo_index' = ed.index

(* The last executed command and the first undone one. *)
LastDone == undo_stack[undo_index + 1]

NextUndone == undo_stack[undo_index + 2]

(* The property grid shows a component: the button "Add script". *)
GridAddScript ==
    /\ \E cmp \in components :
           /\ getScriptCount(scene, cmp) < MaxScripts
           /\ \E ed \in executeCommand(Editor, AddScriptCommand(cmp)) : SetEditor(ed)
    /\ UNCHANGED <<consoleVars, entities, components, selected, menu_level>>

(* The button "Remove script" of the script j. *)
GridRemoveScript ==
    /\ \E cmp \in components :
       \E j \in 0..(getScriptCount(scene, cmp) - 1) :
       \E ed \in executeCommand(Editor, RemoveScriptCommand(cmp, j)) : SetEditor(ed)
    /\ UNCHANGED <<consoleVars, entities, components, selected, menu_level>>

(* The buttons "Up" and "Down" of the script j. *)
GridMoveScript ==
    /\ \E cmp \in components :
       \E j \in 0..(getScriptCount(scene, cmp) - 1) :
       \E up \in BOOLEAN :
       \E ed \in executeCommand(Editor, MoveScriptCommand(cmp, j, up)) : SetEditor(ed)
    /\ UNCHANGED <<consoleVars, entities, components, selected, menu_level>>

(* The resource input "Source" of the script j. *)
GridSetSource ==
    /\ \E cmp \in components :
       \E j \in 0..(getScriptCount(scene, cmp) - 1) :
       \E path \in Paths :
       \E ed \in executeCommand(Editor, SetPropertyCommand(scene, cmp, j, SourceName, path)) :
           SetEditor(ed)
    /\ UNCHANGED <<consoleVars, entities, components, selected, menu_level>>

(* The widget of the property x of the script j. *)
GridSetProperty ==
    /\ \E cmp \in components :
       \E j \in 0..(getScriptCount(scene, cmp) - 1) :
       \E val \in EditedValues :
       \E ed \in executeCommand(Editor, SetPropertyCommand(scene, cmp, j, XName, val)) :
           SetEditor(ed)
    /\ UNCHANGED <<consoleVars, entities, components, selected, menu_level>>

(* The editor undoes the last executed command. *)
Undo ==
    /\ undo_index >= 0
    /\ scene' \in undo(LastDone, scene)
    /\ undo_index' = undo_index - 1
    /\ UNCHANGED <<undo_stack, consoleVars, entities, components, selected, menu_level>>

(* The editor executes the first undone command again. *)
Redo ==
    /\ undo_index + 1 < Len(undo_stack)
    /\ Len(NextUndone.blob) < MaxCopies
    /\ \E r \in execute(NextUndone, scene) :
           /\ scene' = r.scene
           /\ undo_stack' = [undo_stack EXCEPT ![undo_index + 2] = r.cmd]
    /\ undo_index' = undo_index + 1
    /\ UNCHANGED <<consoleVars, entities, components, selected, menu_level>>

(* A running script, or code run from the console, assigns the property x  *)
(* of a script.                                                            *)
ScriptRuns ==
    /\ \E cmp \in components :
       \E j \in 0..(getScriptCount(scene, cmp) - 1) :
       \E val \in Values \ {scene[cmp][j + 1].x} :
           scene' = setPropertyValue(scene, cmp, j, XName, val)
    /\ UNCHANGED <<consoleVars, entities, components, selected, undo_stack, undo_index,
                   menu_level>>

(* The console as constructed and idle. *)
IdleConsole ==
    /\ heap = EmptyHeap
    /\ Buf = <<>>
    /\ CursorPos = 0
    /\ autocomplete = <<>>
    /\ open_autocomplete = FALSE
    /\ callback = "none"
    /\ getter_calls = 0
    /\ vstack = <<>>
    /\ frames = <<>>
    /\ substep_out = <<>>
    /\ NoChoice

InitGrid ==
    /\ IdleConsole
    /\ entities = Components
    /\ components = Components
    /\ selected = 0
    /\ scene = [cmp \in Components |->
                    IF cmp = 1
                    THEN <<Script(<<115>>, LongValue), Script(<<>>, <<48>>)>>
                    ELSE <<Script(<<115>>, <<49>>)>>]
    /\ undo_stack = <<>>
    /\ undo_index = -1
    /\ menu_level = 0

NextGrid ==
    \/ GridAddScript
    \/ GridRemoveScript
    \/ GridMoveScript
    \/ GridSetSource
    \/ GridSetProperty
    \/ Undo
    \/ Redo
    \/ ScriptRuns

SpecGrid == InitGrid /\ [][NextGrid]_vars

----------------------------------------------------------------------------
(* The commands of the property grid, at every scene the editor reaches.   *)

(* The scripts the property grid shows: component and index. *)
GridScripts == {t \in components \X (0..(MaxScripts - 1)) : ValidScript(scene, t[1], t[2])}

(* What a property name stands for in a script: the source path or x. *)
Held(s, cmp, j, name) == IF NamesPath(name) THEN s[cmp][j + 1].path ELSE s[cmp][j + 1].x

WithHeld(s, cmp, j, name, val) ==
    IF NamesPath(name)
    THEN [s EXCEPT ![cmp][j + 1].path = val]
    ELSE [s EXCEPT ![cmp][j + 1].x = val]

(* The values the grid gives for a property name. *)
GridValues(name) == IF NamesPath(name) THEN Paths ELSE EditedValues

(* C12: execute of a SetPropertyCommand sets the property (the source path *)
(* for a name with '-') to the new value and changes nothing else, undo    *)
(* brings back the scene as it was when the command was made, and so for   *)
(* a second cycle.                                                         *)
C12_SetPropertyRoundTrip ==
    \A t \in GridScripts : \A name \in {SourceName, XName} : \A val \in GridValues(name) :
        LET cmd == SetPropertyCommand(scene, t[1], t[2], name, val)
        IN  \A done \in execute(cmd, scene) : \A undone \in undo(done.cmd, done.scene) :
            \A again \in execute(done.cmd, undone) : \A back \in undo(again.cmd, again.scene) :
                /\ done.scene = WithHeld(scene, t[1], t[2], name, val)
                /\ undone = scene
                /\ again.scene = done.scene
                /\ back = scene

(* C13: a newer SetPropertyCommand is merged into the last executed one    *)
(* only when both are for the same component, script index and property   *)
(* name.                                                                   *)
C13_MergeOnlySameProperty ==
    (undo_index >= 0 /\ LastDone.type = "set_script_property")
        => \A t \in GridScripts : \A name \in {SourceName, XName} : \A val \in GridValues(name) :
               LET newer == SetPropertyCommand(scene, t[1], t[2], name, val)
               IN  merge(newer, LastDone).merged
                       => /\ newer.cmp = LastDone.cmp
                          /\ newer.scr_index = LastDone.scr_index
                          /\ newer.property_name = LastDone.property_name

(* C14: two edits of one property, the second merged into the first: the   *)
(* merge changes the value of the first command and nothing else of it,    *)
(* the property then holds the second value, and one undo brings back the  *)
(* value from before the first edit.                                       *)
C14_MergedEditsUndoneAtOnce ==
    \A t \in GridScripts : \A name \in {SourceName, XName} :
    \A first_val, last_val \in GridValues(name) :
        LET first == SetPropertyCommand(scene, t[1], t[2], name, first_val)
        IN  \A done \in execute(first, scene) :
                LET newer == SetPropertyCommand(done.scene, t[1], t[2], name, last_val)
                    m == merge(newer, done.cmd)
                IN  /\ m.merged
                    /\ m.cmd = [done.cmd EXCEPT !.value = last_val]
                    /\ \A again \in execute(m.cmd, done.scene) :
                           /\ Held(again.scene, t[1], t[2], name) = last_val
                           /\ \A undone \in undo(again.cmd, again.scene) :
                                  Held(undone, t[1], t[2], name) = Held(scene, t[1], t[2], name)

(* A step that undoes, and one that executes again, a command of a type. *)
UndoOf(type) == Undo /\ LastDone.type = type

RedoOf(type) == Redo /\ NextUndone.type = type

(* C15: execute of a RemoveScriptCommand takes the script at its index out *)
(* of the list and leaves the others in their order; undo puts a script    *)
(* back at the index, with the state that the execute before it wrote to   *)
(* the blob, and leaves the others as they are.                            *)
C15_RemoveScriptRoundTrip ==
    [][/\ RedoOf("remove_script")
           => scene' = [scene EXCEPT ![NextUndone.cmp] = RemoveAt(@, NextUndone.scr_index)]
       /\ UndoOf("remove_script")
           => scene' = [scene EXCEPT ![LastDone.cmp] =
                           InsertAt(@, LastDone.scr_index, LastDone.blob[Len(LastDone.blob)])]]_vars

(* C16: for every MoveScriptCommand the grid can make, execute and then    *)
(* undo leave the scripts as they were, and execute of a move that has a   *)
(* neighbour to swap with swaps the two and changes nothing else.          *)
C16_MoveScriptRoundTrip ==
    \A t \in GridScripts : \A up \in BOOLEAN :
        LET cmd == MoveScriptCommand(t[1], t[2], up)
            other == IF up THEN t[2] - 1 ELSE t[2] + 1
        IN  \A done \in execute(cmd, scene) :
                /\ ValidScript(scene, t[1], other)
                       => done.scene = [scene EXCEPT ![t[1]][t[2] + 1] = scene[t[1]][other + 1],
                                                     ![t[1]][other + 1] = scene[t[1]][t[2] + 1]]
                /\ \A undone \in undo(done.cmd, done.scene) : undone = scene

(* C17: execute and undo of a MoveScriptCommand pass to moveScript an      *)
(* index of a script of the list.                                          *)
C17_MoveIndexInList ==
    [][/\ RedoOf("move_script") => ValidScript(scene, NextUndone.cmp, NextUndone.scr_index)
       /\ UndoOf("move_script") => ValidScript(scene, LastDone.cmp, MoveUndoIndex(LastDone))]_vars

----------------------------------------------------------------------------
(* The menu "add component" of the script component.  An entity and its    *)
(* script component go by one number.  What the editor's own commands for  *)
(* a new entity and a new component put on the command stack is left out.  *)

(* A choice of the menu executes two commands. *)
MenuFits(ed) == Len(ed.stack) <= MaxCommands + 1

(* AddComponentPlugin::onGUI.  opened is what BeginMenu returns; pick is   *)
(* what the user chose in the menu, if anything: a script of the resource  *)
(* list, "Empty", or "New" with a file that could be created; path is the  *)
(* path of the script then.  menu_level is 1 after a call that returned    *)
(* between BeginMenu and EndMenu.                                          *)
AddComponentGUI ==
    /\ \E opened, create_entity \in BOOLEAN :
       \E pick \in {"none", "resource", "empty", "new"} :
       \E path \in Paths \ {<<>>} :
       \E entity \in Components :
           IF ~opened \/ pick = "none"
           THEN /\ menu_level' = 0
                /\ UNCHANGED <<scene, entities, components, selected, undo_stack, undo_index>>
           ELSE LET chosen == IF create_entity THEN entity ELSE selected
                IN  /\ create_entity => entity \notin entities
                    /\ entities' = IF create_entity THEN entities \cup {entity} ELSE entities
                    /\ selected' = chosen
                    /\ IF chosen = 0
                       THEN /\ menu_level' = 1
                            /\ UNCHANGED <<scene, components, undo_stack, undo_index>>
                       ELSE /\ getScriptCount(scene, chosen) < MaxScripts
                            /\ components' = components \cup {chosen}
                            /\ \E added \in executeCommand(Editor, AddScriptCommand(chosen)) :
                                   IF pick = "empty"
                                   THEN /\ MenuFits(added)
                                        /\ scene' = added.scene
                                        /\ undo_stack' = added.stack
                                        /\ undo_index' = added.index
                                   ELSE LET scr_count == getScriptCount(added.scene, chosen)
                                            set_source_cmd ==
                                                SetPropertyCommand(added.scene, chosen,
                                                    scr_count - 1, SourceName, path)
                                        IN  \E ed \in executeCommand(added, set_source_cmd) :
                                                /\ MenuFits(ed)
                                                /\ scene' = ed.scene
                                                /\ undo_stack' = ed.stack
                                                /\ undo_index' = ed.index
                            /\ menu_level' = 0
    /\ UNCHANGED consoleVars

(* The user selects an entity, or none. *)
SelectEntities ==
    /\ selected' \in (entities \cup {0}) \ {selected}
    /\ UNCHANGED <<consoleVars, scene, entities, components, undo_stack, undo_index,
                   menu_level>>

InitMenu ==
    /\ IdleConsole
    /\ entities = {1}
    /\ components = {}
    /\ selected = 0
    /\ scene = [cmp \in Components |-> <<>>]
    /\ undo_stack = <<>>
    /\ undo_index = -1
    /\ menu_level = 0

NextMenu ==
    \/ AddComponentGUI
    \/ SelectEntities
    \/ Undo
    \/ Redo

SpecMenu == InitMenu /\ [][NextMenu]_vars

(* C20: a call of AddComponentPlugin::onGUI in which BeginMenu returned    *)
(* true has called EndMenu when it returns.                                *)
C20_EndMenuCalled == menu_level = 0

----------------------------------------------------------------------------
(* The command creators the plugin registers with the editor.  A creator  *)
(* is modelled by the command it makes: the object built by the           *)
(* constructor that takes the editor alone, before deserialize fills it   *)
(* (-1 is INVALID_COMPONENT and the scr_index of the constructors).       *)

getType(cmd) == cmd.type

createAddScriptCommand == AddScriptCommand(-1)

createSetPropertyCommand == Command("set_script_property", -1, -1)

createRemoveScriptCommand == RemoveScriptCommand(-1, -1)

NoCreators == [name \in {} |-> createAddScriptCommand]

(* WorldEditor::registerEditorCommandCreator *)
registerEditorCommandCreator(creators, name, creator) ==
    [n \in DOMAIN creators \cup {name} |-> IF n = name THEN creator ELSE creators[n]]

(* The creators of the editor after the entry point of the plugin. *)
CommandCreators ==
    registerEditorCommandCreator(
        registerEditorCommandCreator(
            registerEditorCommandCreator(NoCreators,
                "add_script", createAddScriptCommand),
            "remove_script", createRemoveScriptCommand),
        "set_script_property", createSetPropertyCommand)

(* The editor can make a command of the type of cmd again. *)
CanBeCreated(cmd) ==
    /\ getType(cmd) \in DOMAIN CommandCreators
    /\ getType(CommandCreators[getType(cmd)]) = getType(cmd)

(* C21: every command the plugin has passed to executeCommand and the      *)
(* editor keeps has a creator registered under the name getType returns,   *)
(* and that creator makes a command of this type.                          *)
C21_ExecutedTypesHaveCreators ==
    \A i \in 1..Len(undo_stack) : CanBeCreated(undo_stack[i])

----------------------------------------------------------------------------
(* The value stack during the walk.  The request starts on an empty stack  *)
(* and pushes the global object, so the first call of autocompleteSubstep  *)
(* is entered at height 1; a call made from the loop of call i is entered  *)
(* three values higher, above the enumerator, the key and the fetched      *)
(* value of call i.                                                        *)

EntryHeight(i) == 3 * i - 2

(* The value the property named key has in the object o of the heap. *)
PropertyOf(o, key) ==
    LET found == {k \in 1..Len(heap[o]) : heap[o][k].name = key}
    IN  IF found = {} THEN ScalarValue ELSE heap[o][CHOOSE k \in found : TRUE].value

(* What call i has on the stack: at its entry height the value it was      *)
(* entered with; once it has called duk_enum, which needs an object        *)
(* there, the enumerator of that object above it; while a call it made is  *)
(* running, the key above the enumerator and above the key the value of    *)
(* the property of that name of the enumerated object.                     *)
FrameNeutral(i) ==
    LET h == EntryHeight(i)
    IN  /\ Len(vstack) >= h
        /\ frames[i].pc # "enum" =>
               /\ Len(vstack) >= h + 1
               /\ vstack[h].kind = "object"
               /\ vstack[h + 1].kind = "enum"
               /\ vstack[h + 1].ref = vstack[h].ref
        /\ frames[i].pc = "called" =>
               /\ i < Len(frames)
               /\ vstack[h + 2].kind = "key"
               /\ vstack[h + 3] = PropertyOf(vstack[h].ref, vstack[h + 2].str)

(* The height of the stack where the innermost call is: its entry height   *)
(* before duk_enum, one more at the test of the loop.                      *)
HeightNeutral ==
    Len(vstack) = EntryHeight(Len(frames)) + (IF TopFrame.pc = "enum" THEN 0 ELSE 1)

(* A step of the walk leaves the stack up to the entry height of every     *)
(* call that is active before and after it as it was.                      *)
EntryStackKept ==
    \A i \in 1..Len(frames) :
        i <= Len(frames') =>
            SubSeq(vstack', 1, EntryHeight(i)) = SubSeq(vstack, 1, EntryHeight(i))

(* C22: autocompleteSubstep is neutral on the value stack.  While the      *)
(* request runs, at every turn of the loop of every active call the stack  *)
(* is as high as at the entry of the call plus its enumerator, the values  *)
(* at and below the entry height are the ones the call was entered with,   *)
(* and the fetched value of a call is the property of the enumerated       *)
(* object; a call that returns pops its enumerator and leaves the stack of *)
(* its entry, from which its caller pops the fetched value and the key;    *)
(* and when autocompleteCallback has handled the request the stack is as   *)
(* high as before it.                                                      *)
C22_StackNeutral ==
    /\ []((callback = "running" /\ frames # <<>>) =>
              HeightNeutral /\ \A i \in 1..Len(frames) : FrameNeutral(i))
    /\ [][(callback = "running" /\ callback' = "running") => EntryStackKept]_vars
    /\ [][SubReturn =>
              /\ SubSeq(vstack, 1, Len(vstack) - 1)
                     = SubSeq(vstack, 1, EntryHeight(Len(frames)))
              /\ vstack' = SubSeq(vstack, 1,
                     EntryHeight(Len(frames)) - (IF Len(frames) > 1 THEN 2 ELSE 0))]_vars
    /\ []((callback = "running" /\ frames = <<>>) => vstack = <<ObjectValue(GlobalObject)>>)
    /\ [](callback = "returned" => vstack = <<>>)

(* C22 witness: a request with two segments has returned with candidates,  *)
(* which a call made from the loop of the first call pushed.               *)
C22_Witness ==
    /\ callback = "returned"
    /\ SegmentCount(Query) >= 2
    /\ autocomplete # <<>>

----------------------------------------------------------------------------
(* The reads of the text buffer by the backwards scans of the callback.    *)

(* The indices of Buf the scan reads when the callback is called now. *)
ScanReads(with_dot) == WordStart(Buf, CursorPos, with_dot).reads

(* C23: the scan for the start of the word, in a completion request and    *)
(* in an insertion, reads the text buffer at indices 0..CursorPos-1 only.  *)
C23_ScanReadsInsideText ==
    [][/\ Completion => ScanReads(TRUE) \subseteq 0..(CursorPos - 1)
       /\ Insertion => ScanReads(FALSE) \subseteq 0..(CursorPos - 1)]_vars
====
